---- MODULE Spec2Model ----
(***************************************************************************)
(* Model of the DreamSeeker debug adapter (src/langserver/debugger/mod.rs). *)
(*                                                                         *)
(* The adapter reads one message at a time (io::run_forever), decodes the   *)
(* DAP envelope, dispatches the request to a command handler, and writes    *)
(* Events and one Response through io::write.  The debuggee is an OS        *)
(* process; spawn, kill, wait and thread creation are OS calls whose        *)
(* outcome the adapter does not control, so they are nondeterministic.      *)
(***************************************************************************)
EXTENDS Integers, Sequences, FiniteSets, TLC

\* ------------------------------------------------------------------------
\* Bounds of the model.

\* number of inbound messages the loop reads
MaxRequests == 3
\* number of debuggee processes the OS lets the adapter spawn
MaxProcs == 2

\* ------------------------------------------------------------------------
\* Option<T>: None is the empty sequence, Some(x) the one-element sequence.

None == <<>>

Some(x) == <<x>>

is_some(o) == o # None

unwrap_or(o, d) == IF o = None THEN d ELSE o[1]

\* ------------------------------------------------------------------------
\* i64.  A 64-bit two's complement integer is kept as four 16-bit limbs
\* <<l3, l2, l1, l0>>, most significant first; l3 carries the sign, so the
\* value is l3 * 2^48 + l2 * 2^32 + l1 * 2^16 + l0 with l3 in -2^15 .. 2^15-1.

LimbBase == 65536

LimbHalf == 32768

I64(n) == <<0, 0, 0, n>>

I64_MAX == <<LimbHalf - 1, LimbBase - 1, LimbBase - 1, LimbBase - 1>>

I64_MIN == <<0 - LimbHalf, 0, 0, 0>>

\* i64::wrapping_add(x, 1): add with carry through the limbs; the carry out of
\* the top limb is dropped, so I64_MAX + 1 is I64_MIN.
wrapping_add_1(x) ==
    LET c0 == IF x[4] = LimbBase - 1 THEN 1 ELSE 0
        c1 == IF c0 = 1 /\ x[3] = LimbBase - 1 THEN 1 ELSE 0
        c2 == IF c1 = 1 /\ x[2] = LimbBase - 1 THEN 1 ELSE 0
        top == x[1] + c2
    IN  << IF top = LimbHalf THEN 0 - LimbHalf ELSE top,
           (x[2] + c1) % LimbBase,
           (x[3] + c0) % LimbBase,
           (x[4] + 1) % LimbBase >>

\* x < y as signed 64-bit integers (lexicographic on the limbs).
I64Less(x, y) ==
    \E i \in 1..4 : x[i] < y[i] /\ \A j \in 1..(i - 1) : x[j] = y[j]

\* y is the mathematical successor of x (no wrap involved).
I64IsSucc(x, y) == x # I64_MAX /\ y = wrapping_add_1(x)

\* ------------------------------------------------------------------------
\* Inbound messages.  A message is the text handed to handle_input; the model
\* keeps what the decoders make of it:
\*   envelope : serde_json::from_str::<ProtocolMessage> succeeds
\*   type_, seq : the envelope's fields
\*   request  : serde_json::from_str::<RequestMessage> succeeds
\*   command, arguments : the request's fields
\* arguments is a JSON object; each key is "absent", "true", "false" or
\* "string" (a JSON string value).

ArgKeys == {"linesStartAt1", "columnsStartAt1", "supportsVariableType",
            "supportsVariablePaging", "supportsRunInTerminalRequest",
            "supportsMemoryReferences", "noDebug", "dmb", "terminateDebuggee"}

EmptyArgs == [k \in ArgKeys |-> "absent"]

ArgObjects ==
    { EmptyArgs,
      [EmptyArgs EXCEPT !["dmb"] = "string", !["noDebug"] = "true",
                        !["terminateDebuggee"] = "false",
                        !["supportsVariablePaging"] = "true"],
      [EmptyArgs EXCEPT !["terminateDebuggee"] = "true",
                        !["linesStartAt1"] = "false",
                        !["supportsVariableType"] = "true",
                        !["supportsMemoryReferences"] = "true"],
      [EmptyArgs EXCEPT !["terminateDebuggee"] = "string",
                        !["columnsStartAt1"] = "string",
                        !["dmb"] = "true"] }

ReqSeqs == {I64(1), I64(7)}

Commands == {"initialize", "launch", "disconnect", "attach"}

Requests ==
    [envelope : {TRUE}, type_ : {"request"}, seq : ReqSeqs, request : {TRUE},
     command : Commands, arguments : ArgObjects]

\* text that is no JSON envelope, envelopes of another type, and a "request"
\* envelope that lacks the fields of a RequestMessage
NonRequests ==
    { [envelope |-> FALSE, type_ |-> "", seq |-> I64(0), request |-> FALSE,
       command |-> "", arguments |-> EmptyArgs] }
    \cup
    [envelope : {TRUE}, type_ : {"response", "event", "bogus"}, seq : {I64(1)},
     request : {FALSE}, command : {""}, arguments : {EmptyArgs}]
    \cup
    { [envelope |-> TRUE, type_ |-> "request", seq |-> I64(1), request |-> FALSE,
       command |-> "", arguments |-> EmptyArgs] }

Messages == Requests \cup NonRequests

\* the message the loop has not read yet
NoMessage ==
    [envelope |-> FALSE, type_ |-> "none", seq |-> I64(0), request |-> FALSE,
     command |-> "", arguments |-> EmptyArgs]

\* ------------------------------------------------------------------------
\* Decoding of the command arguments (serde: Option<bool> and String fields).

\* an Option<bool> field decodes unless the key holds a non-boolean
bool_field_ok(v) == v \in {"absent", "true", "false"}

opt_bool(v) == IF v = "absent" THEN None ELSE Some(v = "true")

InitializeKeys == {"linesStartAt1", "columnsStartAt1", "supportsVariableType",
                   "supportsVariablePaging", "supportsRunInTerminalRequest",
                   "supportsMemoryReferences"}

decode_ok(command, arguments) ==
    CASE command = "initialize" ->
            \A k \in InitializeKeys : bool_field_ok(arguments[k])
      [] command = "launch" ->
            bool_field_ok(arguments["noDebug"]) /\ arguments["dmb"] = "string"
      [] command = "disconnect" ->
            bool_field_ok(arguments["terminateDebuggee"])
      [] OTHER -> FALSE

\* ------------------------------------------------------------------------
\* ClientCaps

ClientCaps_default ==
    [lines_start_at_1 |-> FALSE, columns_start_at_1 |-> FALSE,
     variable_type |-> FALSE, variable_paging |-> FALSE,
     run_in_terminal |-> FALSE, memory_references |-> FALSE]

ClientCaps_parse(params) ==
    [lines_start_at_1 |-> unwrap_or(opt_bool(params["linesStartAt1"]), TRUE),
     columns_start_at_1 |-> unwrap_or(opt_bool(params["columnsStartAt1"]), TRUE),
     variable_type |-> unwrap_or(opt_bool(params["supportsVariableType"]), FALSE),
     variable_paging |-> unwrap_or(opt_bool(params["supportsVariablePaging"]), FALSE),
     run_in_terminal |-> unwrap_or(opt_bool(params["supportsRunInTerminalRequest"]), FALSE),
     memory_references |-> unwrap_or(opt_bool(params["supportsMemoryReferences"]), FALSE)]

\* ------------------------------------------------------------------------
\* Capabilities: the adapter's own capabilities, the result of Initialize.
\* `others` stands for every field but supportTerminateDebuggee.

Capabilities_default == [supportTerminateDebuggee |-> None, others |-> None]


\* Capabilities { supportTerminateDebuggee: Some(true), .. Default::default() }
Capabilities_ours ==
    [Capabilities_default EXCEPT !.supportTerminateDebuggee = Some(TRUE)]

\* ------------------------------------------------------------------------
\* Debuggee processes as the OS sees them.  procs[p] is the p-th process the
\* adapter spawned:
\*   state  : "running", "exited" (not yet waited for) or "reaped"
\*   killed : a kill has been delivered to it
\*   status : ExitStatus::code() once it has exited, None when it was ended by
\*            a signal

ExitCodes == {0, 3}

Statuses == {None} \cup {Some(c) : c \in ExitCodes}

NewProc == [state |-> "running", killed |-> FALSE, status |-> None]

\* outcome of the OS call of one handler run (a run makes at most one of
\* Command::spawn, Child::kill, thread::Builder::spawn before it returns or
\* blocks)
OsOutcomes == {[spawn |-> b, kill |-> b, thread |-> b] : b \in BOOLEAN}

\* ------------------------------------------------------------------------
\* State

VARIABLES
    pc,           \* position of the main loop: "idle" (in io::run_forever,
                  \* between messages), "wait" (inside Disconnect, blocked in
                  \* child.wait()), "panicked" (handle_input's expect failed)
    nread,        \* number of messages io::run_forever has handed over
    message,      \* the message handle_input was last called with
    held,         \* Disconnect's local `child` while it is blocked in wait()
    child,        \* Debugger::child, None or Some(process)
    seq,          \* Debugger::seq
    client_caps,  \* Debugger::client_caps
    out,          \* the messages handed to io::write, in order
    procs,        \* the processes spawned so far
    reapers,      \* the processes owned by a "detached debuggee wait() thread"
    error         \* the Err handle_input_inner returned to handle_input's expect

vars == <<pc, nread, message, held, child, seq, client_caps, out, procs, reapers,
          error>>

\* the part of the state the handlers read and write
Self ==
    [child |-> child, seq |-> seq, client_caps |-> client_caps, out |-> out,
     procs |-> procs, reapers |-> reapers]

\* Debugger::new, before the first message
Init ==
    /\ pc = "idle"
    /\ nread = 0
    /\ message = NoMessage
    /\ held = None
    /\ child = None
    /\ seq = I64(0)
    /\ client_caps = ClientCaps_default
    /\ out = <<>>
    /\ procs = <<>>
    /\ reapers = {}
    /\ error = None

\* ------------------------------------------------------------------------
\* Outgoing messages

\* a next_seq that stops at the largest value (i64::saturating_add)
next_seq_saturating(s) == IF s = I64_MAX THEN s ELSE wrapping_add_1(s)

next_seq(s) == wrapping_add_1(s)

EventMessage(sq, event, body) ==
    [type_ |-> "event", seq |-> sq, event |-> event, body |-> Some(body)]

\* issue_event that stamps the event with the current seq without minting
issue_event_stale(self, event, body) ==
    [self EXCEPT !.out = Append(self.out, EventMessage(self.seq, event, body))]

\* issue_event: mint a seq, write the event
issue_event(self, event, body) ==
    LET sq == next_seq(self.seq)
    IN  [self EXCEPT !.seq = sq,
                     !.out = Append(self.out, EventMessage(sq, event, body))]

ExitedEvent(code) == [exitCode |-> code]

TerminatedEvent_default == [restart |-> None]

\* Result<T, Box<dyn Error>> of a handler; "blocked" is a handler that has not
\* returned yet
Ok(v) == [tag |-> "ok", val |-> v]

Err(m) == [tag |-> "err", val |-> m]

Blocked(p) == [tag |-> "blocked", val |-> p]

is_ok(r) == r.tag = "ok"

\* serde_json::to_value of the unit result of Launch and Disconnect
JsonNull == [null |-> TRUE]

\* a Response that echoes its own seq as request_seq
ResponseMessage_own_seq(sq, request_seq, command, handled) ==
    [type_ |-> "response",
     seq |-> sq,
     request_seq |-> sq,
     command |-> command,
     success |-> is_ok(handled),
     message |-> IF is_ok(handled) THEN None ELSE Some(handled.val),
     body |-> IF is_ok(handled) THEN Some(handled.val) ELSE None]

\* a Response that drops the error text
ResponseMessage_no_message(sq, request_seq, command, handled) ==
    [type_ |-> "response",
     seq |-> sq,
     request_seq |-> request_seq,
     command |-> command,
     success |-> is_ok(handled),
     message |-> None,
     body |-> IF is_ok(handled) THEN Some(handled.val) ELSE None]

\* a Response that carries the handler's value as body on failure too
ResponseMessage_always_body(sq, request_seq, command, handled) ==
    [type_ |-> "response",
     seq |-> sq,
     request_seq |-> request_seq,
     command |-> command,
     success |-> is_ok(handled),
     message |-> IF is_ok(handled) THEN None ELSE Some(handled.val),
     body |-> Some(handled.val)]

ResponseMessage(sq, request_seq, command, handled) ==
    [type_ |-> "response",
     seq |-> sq,
     request_seq |-> request_seq,
     command |-> command,
     success |-> is_ok(handled),
     message |-> IF is_ok(handled) THEN None ELSE Some(handled.val),
     body |-> IF is_ok(handled) THEN Some(handled.val) ELSE None]

\* a tail that answers only the requests whose handler succeeded
write_response_ok_only(self, request_seq, command, handled) ==
    LET sq == next_seq(self.seq)
    IN  IF is_ok(handled)
        THEN [self EXCEPT !.seq = sq,
                          !.out = Append(self.out,
                                         ResponseMessage(sq, request_seq, command, handled))]
        ELSE self

\* the tail of handle_input_inner: build the Response with a fresh seq and
\* write it
write_response(self, request_seq, command, handled) ==
    LET sq == next_seq(self.seq)
    IN  [self EXCEPT !.seq = sq,
                     !.out = Append(self.out,
                                    ResponseMessage(sq, request_seq, command, handled))]

IsResponse(m) == m.type_ = "response"

IsEvent(m) == m.type_ = "event"


\* ------------------------------------------------------------------------
\* Command handlers.  A handler maps the state to the state it leaves and its
\* result: [st |-> state, handled |-> Ok / Err / Blocked].

\* an Initialize that advertises what the client asked for
Initialize_echo(self, params) ==
    [st |-> [self EXCEPT !.client_caps = ClientCaps_parse(params)],
     handled |-> Ok([Capabilities_ours EXCEPT
                        !.others = Some(ClientCaps_parse(params).variable_type)])]

\* an Initialize that keeps the stored flag where the request has none
Initialize_merge(self, params) ==
    LET old == self.client_caps
        new == ClientCaps_parse(params)
        pick(key, o, n) == IF params[key] = "absent" THEN o ELSE n
    IN  [st |-> [self EXCEPT !.client_caps =
                    [lines_start_at_1 |->
                        pick("linesStartAt1", old.lines_start_at_1, new.lines_start_at_1),
                     columns_start_at_1 |->
                        pick("columnsStartAt1", old.columns_start_at_1, new.columns_start_at_1),
                     variable_type |->
                        pick("supportsVariableType", old.variable_type, new.variable_type),
                     variable_paging |->
                        pick("supportsVariablePaging", old.variable_paging, new.variable_paging),
                     run_in_terminal |->
                        pick("supportsRunInTerminalRequest", old.run_in_terminal, new.run_in_terminal),
                     memory_references |->
                        pick("supportsMemoryReferences", old.memory_references, new.memory_references)]],
         handled |-> Ok(Capabilities_ours)]

Initialize(self, params) ==
    [st |-> [self EXCEPT !.client_caps = ClientCaps_parse(params)],
     handled |-> Ok(Capabilities_ours)]

\* a Launch that stores the outcome of spawn, so a failure clears the handle
LaunchVsc_clear(self, params, os) ==
    IF os.spawn
    THEN LET p == Len(self.procs) + 1
         IN  [st |-> [self EXCEPT !.procs = Append(self.procs, NewProc),
                                  !.child = Some(p)],
              handled |-> Ok(JsonNull)]
    ELSE [st |-> [self EXCEPT !.child = None], handled |-> Err("spawn failed")]

\* a Launch that kills the process it replaces
LaunchVsc_kill_old(self, params, os) ==
    IF os.spawn
    THEN LET p == Len(self.procs) + 1
             old == IF self.child = None THEN self.procs
                    ELSE [self.procs EXCEPT ![self.child[1]].killed = TRUE]
         IN  [st |-> [self EXCEPT !.procs = Append(old, NewProc),
                                  !.child = Some(p)],
              handled |-> Ok(JsonNull)]
    ELSE [st |-> self, handled |-> Err("spawn failed")]

LaunchVsc(self, params, os) ==
    IF os.spawn
    THEN LET p == Len(self.procs) + 1
         IN  [st |-> [self EXCEPT !.procs = Append(self.procs, NewProc),
                                  !.child = Some(p)],
              handled |-> Ok(JsonNull)]
    ELSE [st |-> self, handled |-> Err("spawn failed")]

\* Child::kill: the signal is delivered; the process exits on its own time
kill(ps, p) == [ps EXCEPT ![p].killed = TRUE]

\* a Disconnect that borrows the handle instead of taking it
Disconnect_keep(self, params, os) ==
    LET default_terminate == TRUE
        terminate == unwrap_or(opt_bool(params["terminateDebuggee"]), default_terminate)
    IN  IF self.child = None
        THEN [st |-> self, handled |-> Ok(JsonNull)]
        ELSE LET p == self.child[1]
                 taken == self
             IN  IF terminate
                 THEN IF os.kill
                      THEN [st |-> [taken EXCEPT !.procs = kill(taken.procs, p)],
                            handled |-> Blocked(p)]
                      ELSE [st |-> taken, handled |-> Err("kill failed")]
                 ELSE IF os.thread
                      THEN [st |-> issue_event(
                                       [taken EXCEPT !.reapers = taken.reapers \cup {p}],
                                       "terminated", TerminatedEvent_default),
                            handled |-> Ok(JsonNull)]
                      ELSE [st |-> taken, handled |-> Err("thread spawn failed")]

\* a Disconnect that announces a detach even when nothing is tracked
Disconnect_noisy(self, params, os) ==
    LET default_terminate == TRUE
        terminate == unwrap_or(opt_bool(params["terminateDebuggee"]), default_terminate)
    IN  IF self.child = None
        THEN [st |-> IF terminate THEN self
                     ELSE issue_event(self, "terminated", TerminatedEvent_default),
              handled |-> Ok(JsonNull)]
        ELSE LET p == self.child[1]
                 taken == [self EXCEPT !.child = None]
             IN  IF terminate
                 THEN IF os.kill
                      THEN [st |-> [taken EXCEPT !.procs = kill(taken.procs, p)],
                            handled |-> Blocked(p)]
                      ELSE [st |-> taken, handled |-> Err("kill failed")]
                 ELSE IF os.thread
                      THEN [st |-> issue_event(
                                       [taken EXCEPT !.reapers = taken.reapers \cup {p}],
                                       "terminated", TerminatedEvent_default),
                            handled |-> Ok(JsonNull)]
                      ELSE [st |-> taken, handled |-> Err("thread spawn failed")]

\* a Disconnect that hands the handle to the reaper thread and keeps it too
Disconnect_share(self, params, os) ==
    LET default_terminate == TRUE
        terminate == unwrap_or(opt_bool(params["terminateDebuggee"]), default_terminate)
    IN  IF self.child = None
        THEN [st |-> self, handled |-> Ok(JsonNull)]
        ELSE LET p == self.child[1]
                 taken == [self EXCEPT !.child = None]
             IN  IF terminate
                 THEN IF os.kill
                      THEN [st |-> [taken EXCEPT !.procs = kill(taken.procs, p)],
                            handled |-> Blocked(p)]
                      ELSE [st |-> taken, handled |-> Err("kill failed")]
                 ELSE IF os.thread
                      THEN [st |-> issue_event(
                                       [self EXCEPT !.reapers = self.reapers \cup {p}],
                                       "terminated", TerminatedEvent_default),
                            handled |-> Ok(JsonNull)]
                      ELSE [st |-> taken, handled |-> Err("thread spawn failed")]

\* a Disconnect that puts the handle back when the OS call fails
Disconnect_restore(self, params, os) ==
    LET default_terminate == TRUE
        terminate == unwrap_or(opt_bool(params["terminateDebuggee"]), default_terminate)
    IN  IF self.child = None
        THEN [st |-> self, handled |-> Ok(JsonNull)]
        ELSE LET p == self.child[1]
                 taken == [self EXCEPT !.child = None]
             IN  IF terminate
                 THEN IF os.kill
                      THEN [st |-> [taken EXCEPT !.procs = kill(taken.procs, p)],
                            handled |-> Blocked(p)]
                      ELSE [st |-> self, handled |-> Err("kill failed")]
                 ELSE IF os.thread
                      THEN [st |-> issue_event(
                                       [taken EXCEPT !.reapers = taken.reapers \cup {p}],
                                       "terminated", TerminatedEvent_default),
                            handled |-> Ok(JsonNull)]
                      ELSE [st |-> self, handled |-> Err("thread spawn failed")]

\* Disconnect up to the point where it returns or blocks in child.wait()
Disconnect(self, params, os) ==
    LET default_terminate == TRUE
        terminate == unwrap_or(opt_bool(params["terminateDebuggee"]), default_terminate)
    IN  IF self.child = None
        THEN [st |-> self, handled |-> Ok(JsonNull)]
        ELSE LET p == self.child[1]
                 taken == [self EXCEPT !.child = None]
             IN  IF terminate
                 THEN IF os.kill
                      THEN [st |-> [taken EXCEPT !.procs = kill(taken.procs, p)],
                            handled |-> Blocked(p)]
                      ELSE [st |-> taken, handled |-> Err("kill failed")]
                 ELSE IF os.thread
                      THEN [st |-> issue_event(
                                       [taken EXCEPT !.reapers = taken.reapers \cup {p}],
                                       "terminated", TerminatedEvent_default),
                            handled |-> Ok(JsonNull)]
                      ELSE [st |-> taken, handled |-> Err("thread spawn failed")]

\* a Disconnect that reports exit code 0 when the status carries none
Disconnect_after_wait_zero(self, p, wait_ok) ==
    IF wait_ok
    THEN LET status == self.procs[p].status
             code == unwrap_or(status, 0)
         IN  [st |-> issue_event([self EXCEPT !.procs[p].state = "reaped"],
                                 "exited", ExitedEvent(code)),
              handled |-> Ok(JsonNull)]
    ELSE [st |-> self, handled |-> Err("wait failed")]

\* Disconnect from the return of child.wait() on: wait_ok tells whether wait
\* returned the exit status or an error
Disconnect_after_wait(self, p, wait_ok) ==
    IF wait_ok
    THEN LET status == self.procs[p].status
             code == unwrap_or(status, -1)
         IN  [st |-> issue_event([self EXCEPT !.procs[p].state = "reaped"],
                                 "exited", ExitedEvent(code)),
              handled |-> Ok(JsonNull)]
    ELSE [st |-> self, handled |-> Err("wait failed")]

\* the dispatch generated by handle_request!: decode the arguments for the
\* command, run its handler
handle_request(self, request, os) ==
    IF request.command \notin {"initialize", "launch", "disconnect"}
    THEN [st |-> self,
          handled |-> Err("unknown command " \o request.command)]
    ELSE IF ~decode_ok(request.command, request.arguments)
    THEN [st |-> self, handled |-> Err("invalid arguments")]
    ELSE CASE request.command = "initialize" -> Initialize(self, request.arguments)
           [] request.command = "launch" -> LaunchVsc(self, request.arguments, os)
           [] request.command = "disconnect" -> Disconnect(self, request.arguments, os)

\* handle_input_inner's envelope checks: the message is a decodable request
is_request(msg) == msg.envelope /\ msg.type_ = "request" /\ msg.request

\* a handle_input_inner that holds the handler's events back until the
\* Response is written
respond_events_last(self, msg, r) ==
    LET k == Len(self.out)
        events == SubSeq(r.st.out, k + 1, Len(r.st.out))
        w == write_response(r.st, msg.seq, msg.command, r.handled)
    IN  [w EXCEPT !.out = (self.out \o <<w.out[Len(w.out)]>>) \o events]

\* handle_input_inner for a request whose handler returned
respond(self, msg, r) ==
    write_response(r.st, msg.seq, msg.command, r.handled)

\* ------------------------------------------------------------------------
\* Actions

Install(st) ==
    /\ child' = st.child
    /\ seq' = st.seq
    /\ client_caps' = st.client_caps
    /\ out' = st.out
    /\ procs' = st.procs
    /\ reapers' = st.reapers

\* a handle_input_inner that also returns Err for a command it does not know
handle_input_inner_err_strict(msg) ==
    ~is_request(msg) \/ msg.command \notin {"initialize", "launch", "disconnect"}

\* a handle_input_inner that takes every envelope for a request
handle_input_inner_err_any_type(msg) == ~msg.envelope

\* handle_input_inner returns Err: the text is no envelope, its type is not
\* RequestMessage::TYPE, or it does not decode as a RequestMessage
handle_input_inner_err(msg) == ~is_request(msg)

\* the Err of handle_input_inner: serde's error for a text that does not
\* decode, or the error that quotes the `type` field
envelope_error(msg) ==
    IF ~msg.envelope THEN "invalid envelope"
    ELSE IF msg.type_ # "request" THEN "unknown type field " \o msg.type_
    ELSE "invalid request"

\* io::run_forever calls handle_input with the next message
handle_input(msg, os) ==
    /\ pc = "idle"
    /\ nread < MaxRequests
    /\ nread' = nread + 1
    /\ message' = msg
    /\ IF handle_input_inner_err(msg)
       THEN \* handle_input_inner returns Err, expect panics
            /\ pc' = "panicked"
            /\ error' = Some(envelope_error(msg))
            /\ UNCHANGED <<held, child, seq, client_caps, out, procs, reapers>>
       ELSE LET r == handle_request(Self, msg, os)
            IN  /\ UNCHANGED error
                /\ (msg.command = "launch" /\ is_ok(r.handled))
                        => Len(procs) < MaxProcs
                /\ IF r.handled.tag = "blocked"
                   THEN /\ pc' = "wait"
                        /\ held' = Some(r.handled.val)
                        /\ Install(r.st)
                   ELSE /\ pc' = "idle"
                        /\ held' = None
                        /\ Install(respond(Self, msg, r))

\* a wait that returns a status without blocking until the process has exited
wait_returns_eager(wait_ok) ==
    /\ pc = "wait"
    /\ LET r == Disconnect_after_wait(Self, held[1], wait_ok)
       IN  Install(respond(Self, message, r))
    /\ pc' = "idle"
    /\ held' = None
    /\ UNCHANGED <<nread, message, error>>

\* child.wait() returns in Disconnect: the process has exited, or wait failed
wait_returns(wait_ok) ==
    /\ pc = "wait"
    /\ wait_ok => procs[held[1]].state = "exited"
    /\ LET r == Disconnect_after_wait(Self, held[1], wait_ok)
       IN  Install(respond(Self, message, r))
    /\ pc' = "idle"
    /\ held' = None
    /\ UNCHANGED <<nread, message, error>>

\* a debuggee exits, by itself or because it was killed
proc_exit(p, status) ==
    /\ p \in 1..Len(procs)
    /\ procs[p].state = "running"
    /\ procs' = [procs EXCEPT ![p].state = "exited", ![p].status = status]
    /\ UNCHANGED <<pc, nread, message, held, child, seq, client_caps, out, reapers,
                   error>>

\* the detached thread's child.wait() returns; the result is discarded
reaper_wait(p) ==
    /\ pc # "panicked"
    /\ p \in reapers
    /\ procs[p].state = "exited"
    /\ procs' = [procs EXCEPT ![p].state = "reaped"]
    /\ reapers' = reapers \ {p}
    /\ UNCHANGED <<pc, nread, message, held, child, seq, client_caps, out, error>>

Next ==
    \/ \E msg \in Messages, os \in OsOutcomes : handle_input(msg, os)
    \/ \E wait_ok \in BOOLEAN : wait_returns(wait_ok)
    \/ \E p \in 1..MaxProcs, status \in Statuses : proc_exit(p, status)
    \/ \E p \in 1..MaxProcs : reaper_wait(p)

Spec == Init /\ [][Next]_vars


\* A session that has already written all but two of the positive seqs: the
\* state of Debugger::new, except that the counter is one short of i64::MAX.
SeqStarts == {I64(0), <<LimbHalf - 1, LimbBase - 1, LimbBase - 1, LimbBase - 2>>}

InitWrap ==
    /\ pc = "idle"
    /\ nread = 0
    /\ message = NoMessage
    /\ held = None
    /\ child = None
    /\ seq \in SeqStarts
    /\ client_caps = ClientCaps_default
    /\ out = <<>>
    /\ procs = <<>>
    /\ reapers = {}
    /\ error = None

SpecWrap == InitWrap /\ [][Next]_vars

\* ------------------------------------------------------------------------
\* Properties

Responses == SelectSeq(out, IsResponse)

Events == SelectSeq(out, IsEvent)

Last(q) == q[Len(q)]

\* C1: the first outgoing message has seq 1, and every outgoing message,
\* Response or Event, has the seq of the message written before it plus 1.
C1_SeqIncreasesByOne ==
    /\ out # <<>> => out[1].seq = <<0, 0, 0, 1>>
    /\ \A i \in 1..(Len(out) - 1) :
          /\ I64IsSucc(out[i].seq, out[i + 1].seq)
          /\ I64Less(out[i].seq, out[i + 1].seq)

\* a Response, then an Event, then a Response have been written
C1_Witness ==
    \E i \in 1..(Len(out) - 2) :
        IsResponse(out[i]) /\ IsEvent(out[i + 1]) /\ IsResponse(out[i + 2])

\* C2: once the handler of a decoded request has returned, the Response
\* written last carries that request's seq as request_seq and its command.
C2_ResponseEchoesRequest ==
    (pc = "idle" /\ nread > 0) =>
        /\ out # <<>>
        /\ IsResponse(Last(out))
        /\ Last(out).request_seq = message.seq
        /\ Last(out).command = message.command

\* a failed request and a request that emitted an event have both been
\* answered, with different request seqs
C2_Witness ==
    /\ pc = "idle"
    /\ \E i, j \in 1..Len(out) :
          /\ i + 1 < j
          /\ IsResponse(out[i]) /\ ~out[i].success
          /\ IsEvent(out[j - 1])
          /\ IsResponse(out[j]) /\ out[j].success
          /\ out[i].request_seq # out[j].request_seq

\* C3: every decoded request has exactly one Response once its handler has
\* returned: the Responses written are as many as the requests read, less the
\* one whose handler is still running; an undecodable message gets none.
C3_OneResponsePerRequest ==
    /\ pc = "idle" => Len(Responses) = nread
    /\ pc = "wait" => Len(Responses) = nread - 1
    /\ pc = "panicked" => Len(Responses) = nread - 1

\* a successful and a failed request have been answered
C3_Witness ==
    /\ pc = "idle"
    /\ nread = 2
    /\ \E i, j \in 1..Len(Responses) : Responses[i].success /\ ~Responses[j].success


\* ------------------------------------------------------------------------
\* Steps of the main loop, as seen from outside

\* the messages this step hands to io::write
Written == SubSeq(out', Len(out) + 1, Len(out'))

\* this step is handle_input reading a request for cmd whose arguments decode
Reads(cmd) ==
    /\ pc = "idle"
    /\ nread' = nread + 1
    /\ is_request(message')
    /\ message'.command = cmd
    /\ decode_ok(cmd, message'.arguments)

\* terminateDebuggee is true or absent in the request
WantsTerminate(msg) == msg.arguments["terminateDebuggee"] \in {"absent", "true"}

\* this step returns from a Disconnect that found a handle and was asked to
\* terminate: at once (kill failed), or when child.wait() returns
TerminateReturns ==
    /\ pc' = "idle"
    /\ \/ pc = "wait"
       \/ Reads("disconnect") /\ WantsTerminate(message') /\ child # None

\* the process that Disconnect took from Session State
Taken == IF pc = "wait" THEN held[1] ELSE child[1]

\* one exited event with the exit code of process p, or -1, then the Response
ExitedThenResponse(p) ==
    /\ Len(Written) = 2
    /\ IsEvent(Written[1])
    /\ Written[1].event = "exited"
    /\ Written[1].body =
         Some([exitCode |-> IF procs'[p].status = None THEN -1
                            ELSE procs'[p].status[1]])
    /\ IsResponse(Written[2])

\* C4 as stated: every Disconnect with terminateDebuggee true or absent on a
\* tracked handle kills the process, waits for it, tracks no handle afterwards
\* and emits exactly one exited event with the real exit code or -1.
C4_Original ==
    [][TerminateReturns =>
          /\ child' = None
          /\ procs'[Taken].killed
          /\ procs'[Taken].state = "reaped"
          /\ ExitedThenResponse(Taken)]_vars

\* C4 amended: such a Disconnect always leaves no handle tracked and emits no
\* terminated event; when kill and wait both succeed it emits exactly one
\* exited event with the real exit code or -1 before a successful Response;
\* when kill or wait fails it emits no event and the Response has
\* success=false.
C4_TerminateDisconnect ==
    [][/\ pc' = "wait" => child' = None /\ procs'[held'[1]].killed
       /\ TerminateReturns =>
             /\ child' = None
             /\ \A i \in 1..Len(Written) :
                    IsEvent(Written[i]) => Written[i].event # "terminated"
             /\ IF procs'[Taken].killed /\ procs'[Taken].state = "reaped"
                THEN ExitedThenResponse(Taken) /\ Written[2].success
                ELSE /\ Len(Written) = 1
                     /\ IsResponse(Written[1])
                     /\ ~Written[1].success]_vars

\* a Disconnect has killed and reaped a process that was ended by a signal and
\* has reported exit code -1
C4_Witness ==
    /\ pc = "idle"
    /\ message.command = "disconnect"
    /\ child = None
    /\ Len(out) >= 2
    /\ IsEvent(out[Len(out) - 1])
    /\ out[Len(out) - 1].event = "exited"
    /\ out[Len(out) - 1].body = Some([exitCode |-> -1])
    /\ Last(out).success
    /\ \E p \in 1..Len(procs) :
          procs[p].killed /\ procs[p].state = "reaped" /\ procs[p].status = None


\* this step is a Disconnect with terminateDebuggee=false that finds a handle
DetachDisconnect ==
    Reads("disconnect") /\ ~WantsTerminate(message') /\ child # None

\* one terminated event, then a successful Response
TerminatedThenResponse ==
    /\ Len(Written) = 2
    /\ IsEvent(Written[1])
    /\ Written[1].event = "terminated"
    /\ IsResponse(Written[2])
    /\ Written[2].success

\* C5 as stated: every Disconnect with terminateDebuggee=false on a tracked
\* handle emits exactly one terminated event and no exited event, tracks no
\* handle afterwards, and writes its event and Response without waiting for
\* the process.
C5_Original ==
    [][DetachDisconnect =>
          /\ TerminatedThenResponse
          /\ child' = None
          /\ pc' = "idle"
          /\ procs' = procs]_vars

\* C5 amended: such a Disconnect never waits for the process and always leaves
\* no handle tracked; when the reaper thread is created it emits exactly one
\* terminated event (no exited event) before a successful Response; when the
\* thread cannot be created it emits no event and the Response has
\* success=false.
C5_DetachDisconnect ==
    [][DetachDisconnect =>
          /\ child' = None
          /\ pc' = "idle"
          /\ procs' = procs
          /\ IF child[1] \in reapers'
             THEN TerminatedThenResponse
             ELSE /\ Len(Written) = 1
                  /\ IsResponse(Written[1])
                  /\ ~Written[1].success]_vars

\* the terminated event and the Response of a detaching Disconnect are written
\* and the detached process is still running
C5_Witness ==
    /\ pc = "idle"
    /\ message.command = "disconnect"
    /\ ~WantsTerminate(message)
    /\ child = None
    /\ Len(out) >= 2
    /\ IsEvent(out[Len(out) - 1])
    /\ out[Len(out) - 1].event = "terminated"
    /\ Last(out).success
    /\ \E p \in reapers : procs[p].state = "running"

\* C6: a Disconnect whose arguments decode and that finds no tracked handle
\* writes a Response with success=true and nothing else, and no handle is
\* tracked afterwards, whatever terminateDebuggee is.
C6_DisconnectNoHandle ==
    [][(Reads("disconnect") /\ child = None) =>
          /\ Len(Written) = 1
          /\ IsResponse(Written[1])
          /\ Written[1].success
          /\ child' = None
          /\ pc' = "idle"]_vars

\* two Disconnects found nothing tracked, the last with
\* terminateDebuggee=false; both were answered with success and no event
C6_Witness ==
    /\ pc = "idle"
    /\ nread = 2
    /\ procs = <<>>
    /\ message.arguments["terminateDebuggee"] = "false"
    /\ Len(out) = 2
    /\ \A i \in 1..2 :
          IsResponse(out[i]) /\ out[i].command = "disconnect" /\ out[i].success

\* C7: a request for a command other than initialize, launch, disconnect is
\* answered with success=false and a non-empty message, emits no event and
\* changes neither the tracked handle nor the client capabilities.
C7_UnknownCommand ==
    [][(/\ pc = "idle"
        /\ nread' = nread + 1
        /\ is_request(message')
        /\ message'.command \notin {"initialize", "launch", "disconnect"}) =>
          /\ Len(Written) = 1
          /\ IsResponse(Written[1])
          /\ ~Written[1].success
          /\ Written[1].message # None
          /\ Written[1].message[1] # ""
          /\ child' = child
          /\ client_caps' = client_caps
          /\ pc' = "idle"]_vars

\* an unknown command was refused while a handle was tracked and the client
\* capabilities had been negotiated
C7_Witness ==
    /\ pc = "idle"
    /\ message.command = "attach"
    /\ child # None
    /\ client_caps # ClientCaps_default
    /\ IsResponse(Last(out))
    /\ ~Last(out).success

\* the last request was a Launch whose arguments decoded and whose spawn failed
AfterFailedSpawn ==
    /\ pc = "idle"
    /\ is_request(message)
    /\ message.command = "launch"
    /\ decode_ok("launch", message.arguments)
    /\ ~Last(out).success

\* C8: a Launch whose spawn fails is answered with success=false and a
\* message, emits no event and leaves the tracked handle and the client
\* capabilities as they were; when no handle is tracked after it, a following
\* Disconnect writes a successful Response and no event.
C8_SpawnFailure ==
    [][/\ (Reads("launch") /\ Len(procs') = Len(procs)) =>
             /\ Len(Written) = 1
             /\ IsResponse(Written[1])
             /\ ~Written[1].success
             /\ Written[1].message # None
             /\ child' = child
             /\ client_caps' = client_caps
       /\ (AfterFailedSpawn /\ child = None /\ Reads("disconnect")) =>
             /\ Len(Written) = 1
             /\ IsResponse(Written[1])
             /\ Written[1].success
             /\ child' = None]_vars

\* a Launch failed to spawn with nothing tracked, and the Disconnect after it
\* was answered with success and no event
C8_Witness ==
    /\ pc = "idle"
    /\ message.command = "disconnect"
    /\ procs = <<>>
    /\ Len(out) >= 2
    /\ IsResponse(out[Len(out) - 1])
    /\ out[Len(out) - 1].command = "launch"
    /\ out[Len(out) - 1].message = Some("spawn failed")
    /\ Last(out).command = "disconnect"
    /\ Last(out).success

\* C9: a request never ends the session; a handler error is answered with
\* success=false and a message; and the request read after a failed one is
\* handled: it is answered, or its handler is waiting for the debuggee to exit.
C9_CommandErrorsRecovered ==
    [][/\ (nread' = nread + 1 /\ is_request(message')) => pc' # "panicked"
       /\ \A i \in 1..Len(Written) :
             (IsResponse(Written[i]) /\ ~Written[i].success)
                 => Written[i].message # None
       /\ (/\ pc = "idle"
           /\ out # <<>>
           /\ ~Last(out).success
           /\ nread' = nread + 1
           /\ is_request(message')) =>
             \/ pc' = "wait"
             \/ /\ pc' = "idle"
                /\ IsResponse(Last(out'))
                /\ Last(out').request_seq = message'.seq
                /\ Len(SelectSeq(out', IsResponse)) = Len(Responses) + 1]_vars

\* an unknown command, then a failed spawn were refused, and the request after
\* them succeeded
C9_Witness ==
    /\ pc = "idle"
    /\ Len(out) = 3
    /\ out[1].command = "attach" /\ ~out[1].success
    /\ IsResponse(out[2])
    /\ out[2].message = Some("spawn failed")
    /\ out[3].success

\* C10: every Initialize whose arguments decode is answered with success and
\* the same body: supportTerminateDebuggee true, every other capability at its
\* default, whatever the arguments and the session state.
C10_InitializeResult ==
    [][Reads("initialize") =>
          /\ Len(Written) = 1
          /\ IsResponse(Written[1])
          /\ Written[1].success
          /\ Written[1].body =
               Some([supportTerminateDebuggee |-> Some(TRUE), others |-> None])]_vars

\* Initialize was answered while a handle was tracked, for a client that
\* supports variable types and does not start lines at 1
C10_Witness ==
    /\ pc = "idle"
    /\ message.command = "initialize"
    /\ child # None
    /\ client_caps.variable_type
    /\ ~client_caps.lines_start_at_1
    /\ IsResponse(Last(out))
    /\ Last(out).command = "initialize"
    /\ Last(out).success


\* this step is handle_input reading a message that is no decodable request
ReadsNonRequest ==
    /\ pc = "idle"
    /\ nread' = nread + 1
    /\ ~is_request(message')

\* C11 as stated: every message that is malformed or whose type is not
\* "request" ends the session with an error that names the unrecognized type,
\* and nothing is written and no seq is minted for it.
C11_Original ==
    [][ReadsNonRequest =>
          /\ pc' = "panicked"
          /\ error' = Some("unknown type field " \o message'.type_)
          /\ out' = out
          /\ seq' = seq]_vars

\* C11 amended: a message that is malformed or whose type is not "request" ends the
\* session: handle_input panics with the envelope error, which quotes the type
\* when the envelope has one that is not "request"; nothing is written for the
\* message, no seq is minted, Session State is untouched, and after the panic
\* no message is read and nothing is written.
C11_EnvelopeErrorFatal ==
    [][/\ ReadsNonRequest =>
             /\ pc' = "panicked"
             /\ error' # None
             /\ (message'.envelope /\ message'.type_ # "request")
                    => error' = Some("unknown type field " \o message'.type_)
             /\ out' = out
             /\ seq' = seq
             /\ child' = child
             /\ client_caps' = client_caps
       /\ pc = "panicked" =>
             /\ pc' = "panicked"
             /\ nread' = nread
             /\ out' = out
             /\ seq' = seq]_vars

\* after two answered requests, one of which emitted an event, a message of
\* type "response" ended the session
C11_Witness ==
    /\ pc = "panicked"
    /\ nread = 3
    /\ message.type_ = "response"
    /\ error = Some("unknown type field response")
    /\ Len(out) = 3
    /\ seq = <<0, 0, 0, 3>>


\* the owners of the handle of process p: Session State, the Disconnect
\* handler that took it, a reaper thread
Owners(p) ==
    (IF child = Some(p) THEN {"session"} ELSE {})
    \cup (IF held = Some(p) THEN {"handler"} ELSE {})
    \cup (IF p \in reapers THEN {"reaper"} ELSE {})

\* the step kills process p or returns from a wait on it
ActsOn(p) ==
    \/ procs'[p].killed # procs[p].killed
    \/ procs'[p].state = "reaped" /\ procs[p].state # "reaped"

\* no handle has two owners, and none is both tracked and with a reaper
OneOwnerEach ==
    /\ \A p \in 1..Len(procs) : Cardinality(Owners(p)) <= 1
    /\ \A p \in reapers : child # Some(p)

\* C12: a process handle never has two owners among Session State, the running
\* Disconnect handler and the reaper threads; a handle a reaper owns is not in
\* Session State, and the only step that acts on it is that reaper's wait.
C12_SingleOwner ==
    [][/\ OneOwnerEach
       /\ OneOwnerEach'
       /\ \A p \in reapers :
             ActsOn(p) => (p \notin reapers' /\ out' = out /\ pc' = pc)]_vars

\* a reaper thread owns one process while Session State tracks another
C12_Witness ==
    /\ reapers # {}
    /\ child # None
    /\ \A p \in reapers : child # Some(p)


\* the seq that follows s: s + 1, and the smallest i64 after the largest
FollowsSeq(s, t) ==
    /\ s[4] < 65535 => t = <<s[1], s[2], s[3], s[4] + 1>>
    /\ s = <<32767, 65535, 65535, 65535>> => t = <<-32768, 0, 0, 0>>
    /\ s[4] < 65535 \/ s = <<32767, 65535, 65535, 65535>>

\* C13: a seq is minted by incrementing the counter and then using it, so a
\* counter at 0 gives seq 1; at the largest i64 the increment wraps to the
\* smallest i64, the step does not fail, and the message is written with the
\* wrapped seq; the counter ends at the seq of the last message written.
C13_SeqWraps ==
    [][Written # <<>> =>
          /\ FollowsSeq(seq, Written[1].seq)
          /\ \A i \in 1..(Len(Written) - 1) :
                FollowsSeq(Written[i].seq, Written[i + 1].seq)
          /\ seq' = Last(Written).seq
          /\ pc' = "idle"]_vars

\* a message was written with the largest i64 as seq and the next one with the
\* smallest
C13_Witness ==
    \E i \in 1..(Len(out) - 1) :
        /\ out[i].seq = <<32767, 65535, 65535, 65535>>
        /\ out[i + 1].seq = <<-32768, 0, 0, 0>>
        /\ seq # out[i].seq


\* C14 as stated: in every Response message is present iff success is false,
\* and body is present iff success is true and the handler produced a result
\* body, which only Initialize does; Launch and Disconnect Responses have no
\* body.
C14_Original ==
    \A i \in 1..Len(out) :
        IsResponse(out[i]) =>
            /\ (out[i].message # None) <=> ~out[i].success
            /\ (out[i].body # None) <=>
                   (out[i].success /\ out[i].command = "initialize")

\* C14 amended: in every Response message is present iff success is false,
\* and body is present iff success is true; the body of a successful
\* Initialize is the capabilities object, and the successful Responses to
\* Launch and Disconnect carry a body too, the encoding of their empty result.
C14_MessageAndBody ==
    \A i \in 1..Len(out) :
        IsResponse(out[i]) =>
            /\ (out[i].message # None) <=> ~out[i].success
            /\ (out[i].body # None) <=> out[i].success
            /\ (out[i].success /\ out[i].command = "initialize")
                   => out[i].body[1].supportTerminateDebuggee = Some(TRUE)
            /\ (out[i].success /\ out[i].command \in {"launch", "disconnect"})
                   => out[i].body[1] # [supportTerminateDebuggee |-> Some(TRUE),
                                        others |-> None]

\* a Launch and a Disconnect were answered with success and a body, and a
\* request was refused with a message and no body
C14_Witness ==
    \E i, j, k \in 1..Len(out) :
        /\ IsResponse(out[i]) /\ out[i].command = "launch"
        /\ out[i].success /\ out[i].body # None /\ out[i].message = None
        /\ IsResponse(out[j]) /\ out[j].command = "disconnect"
        /\ out[j].success /\ out[j].body # None
        /\ IsResponse(out[k]) /\ ~out[k].success
        /\ out[k].body = None /\ out[k].message # None


\* the seq of the outgoing message written last, 0 before the first
PreviousSeq == IF out = <<>> THEN <<0, 0, 0, 0>> ELSE Last(out).seq

\* C15: io::write is only ever appended to; the messages of one step are the
\* handler's Events followed by the Response, each Event with a smaller seq
\* than the Response; when a Disconnect emits an event after previous outgoing
\* seq n, the event has seq n + 1 and the Response n + 2.
C15_EventBeforeResponse ==
    [][/\ Len(out') >= Len(out)
       /\ SubSeq(out', 1, Len(out)) = out
       /\ Written # <<>> =>
             /\ IsResponse(Last(Written))
             /\ \A i \in 1..(Len(Written) - 1) :
                   /\ IsEvent(Written[i])
                   /\ I64Less(Written[i].seq, Last(Written).seq)
       /\ (Len(Written) = 2 /\ message'.command = "disconnect") =>
             \E n1 \in {Written[1].seq} :
                 /\ FollowsSeq(PreviousSeq, n1)
                 /\ FollowsSeq(n1, Written[2].seq)]_vars

\* a Disconnect wrote its event with seq 2 and its Response with seq 3 after a
\* Launch answered with seq 1
C15_Witness ==
    /\ Len(out) = 3
    /\ message.command = "disconnect"
    /\ IsResponse(out[1]) /\ out[1].seq = <<0, 0, 0, 1>>
    /\ IsEvent(out[2]) /\ out[2].seq = <<0, 0, 0, 2>>
    /\ IsResponse(out[3]) /\ out[3].seq = <<0, 0, 0, 3>>
    /\ out[3].command = "disconnect"


\* C16: a Launch whose spawn succeeds stores the new handle whether or not one
\* was tracked: the handle tracked afterwards is the new process, the
\* processes spawned before are neither killed nor waited for nor handed to a
\* reaper, and only the successful Response is written; a Launch whose
\* arguments decode is refused only when spawn fails.
C16_LaunchReplaces ==
    [][/\ (Reads("launch") /\ Len(procs') = Len(procs) + 1) =>
             /\ child' = Some(Len(procs'))
             /\ child' # child
             /\ \A p \in 1..Len(procs) : procs'[p] = procs[p]
             /\ reapers' = reapers
             /\ Len(Written) = 1
             /\ IsResponse(Written[1])
             /\ Written[1].success
             /\ pc' = "idle"
       /\ (Reads("launch") /\ Len(procs') = Len(procs)) =>
             /\ Len(Written) = 1
             /\ Written[1].message = Some("spawn failed")]_vars

\* a second Launch succeeded while the first process was tracked; that process
\* is still running, was not killed and has no reaper, and no event was
\* written
C16_Witness ==
    /\ pc = "idle"
    /\ message.command = "launch"
    /\ child = Some(2)
    /\ procs[1].state = "running"
    /\ ~procs[1].killed
    /\ reapers = {}
    /\ Len(out) = 2
    /\ \A i \in 1..2 : IsResponse(out[i]) /\ out[i].command = "launch" /\ out[i].success


\* C17 as stated: a Disconnect asked to terminate a tracked process writes
\* nothing before the process has exited, and while the process has not exited
\* no Response is written and no request is read.
C17_Original ==
    [][/\ TerminateReturns => procs[Taken].state = "exited"
       /\ pc = "wait" => nread' = nread
       /\ (pc = "wait" /\ procs[held[1]].state = "running")
              => (out' = out /\ pc' = "wait")]_vars

\* C17 amended: a step writes at most one Response, and while a Disconnect
\* handler waits no request is read; the exited event and a Response with
\* success=true are written only once the process has exited; while the
\* process has not exited the only thing the waiting handler can write is the
\* Response with success=false of a wait that failed.
C17_HandlerRunsToCompletion ==
    [][/\ Len(SelectSeq(Written, IsResponse)) <= 1
       /\ pc = "wait" => (nread' = nread /\ message' = message)
       /\ (TerminateReturns /\ (Len(Written) > 1 \/ Last(Written).success))
              => procs[Taken].state = "exited"
       /\ (pc = "wait" /\ procs[held[1]].state = "running" /\ out' # out) =>
              /\ Len(Written) = 1
              /\ IsResponse(Written[1])
              /\ ~Written[1].success]_vars

\* a Disconnect has killed the process and is blocked in wait: the process is
\* still running and the request has no Response yet
C17_Witness ==
    /\ pc = "wait"
    /\ nread = 2
    /\ message.command = "disconnect"
    /\ held # None
    /\ procs[held[1]].killed
    /\ procs[held[1]].state = "running"
    /\ Len(out) = 1


\* the flag a request gives under key, or dflt when the key is absent
GivenOr(args, key, dflt) == IF args[key] = "absent" THEN dflt ELSE args[key] = "true"

\* C18: after an Initialize whose arguments decode, every stored flag is the
\* one the request gives, or its default when absent (true for linesStartAt1
\* and columnsStartAt1, false for the other four), whatever was stored before;
\* the tracked handle and the processes are untouched; and an Initialize with
\* the arguments of the Initialize just handled changes neither the client
\* capabilities nor the tracked handle.
C18_InitializeOverwrites ==
    [][/\ Reads("initialize") =>
             /\ client_caps'.lines_start_at_1
                    = GivenOr(message'.arguments, "linesStartAt1", TRUE)
             /\ client_caps'.columns_start_at_1
                    = GivenOr(message'.arguments, "columnsStartAt1", TRUE)
             /\ client_caps'.variable_type
                    = GivenOr(message'.arguments, "supportsVariableType", FALSE)
             /\ client_caps'.variable_paging
                    = GivenOr(message'.arguments, "supportsVariablePaging", FALSE)
             /\ client_caps'.run_in_terminal
                    = GivenOr(message'.arguments, "supportsRunInTerminalRequest", FALSE)
             /\ client_caps'.memory_references
                    = GivenOr(message'.arguments, "supportsMemoryReferences", FALSE)
             /\ child' = child
             /\ procs' = procs
             /\ reapers' = reapers
       /\ (/\ Reads("initialize")
           /\ is_request(message)
           /\ message.command = "initialize"
           /\ message.arguments = message'.arguments) =>
             /\ client_caps' = client_caps
             /\ child' = child]_vars

\* after an Initialize that set other flags, a second Initialize that gives
\* only supportsVariablePaging left that flag set, the line and column flags
\* at their default true and the rest false, with a handle tracked throughout
C18_Witness ==
    /\ pc = "idle"
    /\ nread = 3
    /\ message.command = "initialize"
    /\ message.arguments["supportsVariablePaging"] = "true"
    /\ child # None
    /\ Len(out) = 3
    /\ out[2].command = "initialize" /\ out[2].success
    /\ out[3].command = "initialize" /\ out[3].success
    /\ client_caps = [lines_start_at_1 |-> TRUE, columns_start_at_1 |-> TRUE,
                      variable_type |-> FALSE, variable_paging |-> TRUE,
                      run_in_terminal |-> FALSE, memory_references |-> FALSE]


\* this step returns from a Disconnect that found a handle and whose OS call
\* failed: kill (the handler did not get to wait), wait (the process was not
\* reaped), or the creation of the reaper thread
DisconnectOsFailure ==
    \/ /\ Reads("disconnect") /\ child # None
       /\ WantsTerminate(message')
       /\ pc' = "idle"
    \/ /\ pc = "wait" /\ pc' = "idle"
       /\ procs'[held[1]].state # "reaped"
    \/ /\ DetachDisconnect
       /\ child[1] \notin reapers'

\* the last request was a Disconnect whose arguments decoded and that failed
AfterFailedDisconnect ==
    /\ pc = "idle"
    /\ is_request(message)
    /\ message.command = "disconnect"
    /\ decode_ok("disconnect", message.arguments)
    /\ ~Last(out).success

\* C19: when Disconnect finds a handle and kill, wait or the creation of the
\* reaper thread fails, only a Response with success=false and a message is
\* written, no event, and afterwards the handle is neither tracked nor held by
\* the handler or a reaper; the Disconnect after it writes a successful
\* Response and no event.
C19_DisconnectOsFailure ==
    [][/\ DisconnectOsFailure =>
             /\ Len(Written) = 1
             /\ IsResponse(Written[1])
             /\ ~Written[1].success
             /\ Written[1].message # None
             /\ child' = None
             /\ held' = None
             /\ Taken \notin reapers'
       /\ (AfterFailedDisconnect /\ Reads("disconnect")) =>
             /\ child = None
             /\ Len(Written) = 1
             /\ IsResponse(Written[1])
             /\ Written[1].success
             /\ child' = None]_vars

\* a Disconnect failed on a tracked process, which is still running, and the
\* Disconnect after it was answered with success; no event was written
C19_Witness ==
    /\ pc = "idle"
    /\ nread = 3
    /\ child = None
    /\ Len(out) = 3
    /\ \A i \in 1..3 : IsResponse(out[i])
    /\ out[1].command = "launch" /\ out[1].success
    /\ out[2].command = "disconnect" /\ ~out[2].success
    /\ out[3].command = "disconnect" /\ out[3].success
    /\ procs[1].state = "running"


\* the i-th Response answers a Launch that succeeded
LaunchSucceeded(i) == Responses[i].command = "launch" /\ Responses[i].success

\* the i-th Response answers a Disconnect whose arguments decoded
DisconnectDecoded(i) ==
    /\ Responses[i].command = "disconnect"
    /\ Responses[i].message # Some("invalid arguments")

\* a handle is tracked iff a Launch has succeeded and no Disconnect whose
\* arguments decoded was answered after the last such Launch or is running now
TrackedIffLaunched ==
    (child # None) <=>
        /\ pc # "wait"
        /\ \E i \in 1..Len(Responses) :
               /\ LaunchSucceeded(i)
               /\ \A j \in (i + 1)..Len(Responses) : ~DisconnectDecoded(j)

\* the events written are exited and terminated events, at most one for each
\* Launch that succeeded
EventsWithinLaunches ==
    /\ \A i \in 1..Len(Events) : Events[i].event \in {"exited", "terminated"}
    /\ Len(Events) <= Cardinality({i \in 1..Len(Responses) : LaunchSucceeded(i)})

\* C20: Session State tracks a handle iff some Launch has succeeded and no
\* Disconnect whose arguments decoded has been handled (or is being handled)
\* since the last successful Launch; the exited and terminated events written
\* are at most as many as the successful Launches; Initialize and Launch write
\* no event.
C20_TrackedIffLaunched ==
    [][/\ TrackedIffLaunched
       /\ TrackedIffLaunched'
       /\ EventsWithinLaunches
       /\ EventsWithinLaunches'
       /\ (/\ pc = "idle"
           /\ nread' = nread + 1
           /\ is_request(message')
           /\ message'.command \in {"initialize", "launch"}) =>
             \A i \in 1..Len(Written) : ~IsEvent(Written[i])]_vars

\* a handle is tracked after Launch, a Disconnect that emitted an event, and a
\* second Launch
C20_Witness ==
    /\ pc = "idle"
    /\ child = Some(2)
    /\ Len(Events) = 1
    /\ Len(Responses) = 3
    /\ LaunchSucceeded(1)
    /\ DisconnectDecoded(2)
    /\ LaunchSucceeded(3)

====
